---- MODULE Spec2Model ----
(***************************************************************************)
(* Model of nixpkgs-review's `pr` sub-command:                             *)
(*   src/nixpkgs_review/cli/config.py  (Config and its three layers)       *)
(*   src/nixpkgs_review/cli/pr.py      (parse_pr_numbers, pr_command)      *)
(* Three specifications share the variables:                               *)
(*   SpecPr         the process, from its command line to its end          *)
(*   SpecSubConfig  update_from_dict of RevConfig, PrConfig, WipConfig     *)
(*   SpecParse      parse_pr_numbers on bounded argument lists             *)
(***************************************************************************)
EXTENDS Integers, Sequences, FiniteSets, TLC

VARIABLES
    config,      \* the objects the methods work on, or NoObject
    cfg_file,    \* the config.toml of the user
    cfg_args,    \* the dict handed to the method called last; the CLI overrides
    cfg_pc,      \* "class" until class Config is made; for the sub-configs
                 \* "objects", then the table of the method called last
    cfg_err,     \* exception that ended the call or the import, or "none"
    cfg_calls,   \* number of update_from_dict calls made so far
    number_args, \* the argument list handed to parse_pr_numbers
    parse_pc,    \* "idle", "args", "done"
    parse_out,   \* what the call did: [exit, prs]
    pc,          \* position of the process: "idle", "argv", "imported", "ended"
    no_shell,    \* args.no_shell
    prs,         \* line 41
    outcome      \* how the process ended

cfgVars == <<config, cfg_file, cfg_args, cfg_pc, cfg_err, cfg_calls>>
parseVars == <<number_args, parse_pc, parse_out>>
prVars == <<pc, no_shell, prs, outcome>>
vars == <<cfgVars, parseVars, prVars>>

-----------------------------------------------------------------------------
(* Python values.  Every value carries its runtime type, so that           *)
(* isinstance() and == are decided as Python decides them.                 *)

Str(x) == [t |-> "str", s |-> x, n |-> 0, l |-> <<>>]
Bool(b) == [t |-> "bool", s |-> "", n |-> IF b THEN 1 ELSE 0, l |-> <<>>]
IntV(k) == [t |-> "int", s |-> "", n |-> k, l |-> <<>>]
List(q) == [t |-> "list", s |-> "", n |-> 0, l |-> q]
\* a compiled re.Pattern, the result of re.compile(x)
Pattern(x) == [t |-> "pattern", s |-> x, n |-> 0, l |-> <<>>]

\* isinstance(value, expected_type); bool is a subclass of int in Python
IsInstance(v, ty) ==
    IF ty = "int" THEN v.t \in {"int", "bool"} ELSE v.t = ty

\* dict.get(key, default)
Get(d, k, default) == IF k \in DOMAIN d THEN d[k] ELSE default

\* _check_type: the exception it raises, or "none"
CheckType(v, ty) == IF IsInstance(v, ty) THEN "none" ELSE "ValueError"

\* re.compile(s) succeeds on these pattern strings and raises re.error on
\* every other one
ValidRegexes == {"a.*", "py.*"}

\* regex_type(s) for one element: the compiled pattern and the exception
RegexType(v) ==
    IF v.t = "pattern" THEN [val |-> v, err |-> "none"]
    ELSE IF v.t # "str" THEN [val |-> v, err |-> "TypeError"]
    ELSE IF v.s \in ValidRegexes THEN [val |-> Pattern(v.s), err |-> "none"]
    ELSE [val |-> v, err |-> "ArgumentTypeError"]

EVAL_VALUES == {Str("ofborg"), Str("local")}
CHECKOUT_VALUES == {Str("merge"), Str("commit")}
ALLOW_VALUES == {Str("aliases"), Str("ifd"), Str("url-literals")}
BUILD_GRAPH_VALUES == {Str("nix"), Str("nom")}

-----------------------------------------------------------------------------
(* Sub-configs.  Each update_from_dict returns the object as the call      *)
(* leaves it and the exception that ended the call ("none": it returned).  *)
(* Every field is assigned before it is checked, as in the source.         *)

PrConfigDefault ==
    [eval |-> Str("ofborg"), checkout |-> Str("merge"), post_result |-> Bool(FALSE)]

PrConfig_update_from_dict(self, d) ==
    LET s1 == [self EXCEPT !.eval = Get(d, "eval", @)]
        s2 == [s1 EXCEPT !.checkout = Get(d, "checkout", @)]
        s3 == [s2 EXCEPT !.post_result = Get(d, "post_result", @)]
    IN  IF s1.eval \notin EVAL_VALUES THEN [cfg |-> s1, err |-> "AssertionError"]
        ELSE IF s2.checkout \notin CHECKOUT_VALUES
             THEN [cfg |-> s2, err |-> "AssertionError"]
        ELSE [cfg |-> s3, err |-> CheckType(s3.post_result, "bool")]

RevConfigDefault == [branch |-> Str("master")]

RevConfig_update_from_dict(self, d) ==
    LET s1 == [self EXCEPT !.branch = Get(d, "branch", @)]
    IN  [cfg |-> s1, err |-> CheckType(s1.branch, "str")]

WipConfigDefault == [branch |-> Str("master"), staged |-> Bool(FALSE)]

\* WipConfig.update_from_dict with a given fallback for "staged"
WipUpdateWith(self, d, stagedDefault) ==
    LET s1 == [self EXCEPT !.branch = Get(d, "branch", @)]
        s2 == [s1 EXCEPT !.staged = Get(d, "staged", stagedDefault)]
    IN  IF CheckType(s1.branch, "str") # "none"
        THEN [cfg |-> s1, err |-> "ValueError"]
        ELSE [cfg |-> s2, err |-> CheckType(s2.staged, "bool")]

\* line 82 falls back on self.branch (already updated by line 79)
WipConfig_update_from_dict(self, d) ==
    WipUpdateWith(self, d, Get(d, "branch", self.branch))

-----------------------------------------------------------------------------
(* Config.update_from_dict (config.py:111-179).  x is the running call:    *)
(* the object so far and the exception raised so far.                      *)

\* one assign-then-check step; skipped once an exception has been raised
Step(x, c, e) == IF x.err # "none" THEN x ELSE [cfg |-> c, err |-> e]

AllIn(v, S) == \A i \in 1..Len(v.l) : v.l[i] \in S
AllStr(v) == \A i \in 1..Len(v.l) : v.l[i].t = "str"

\* [regex_type(regex) for regex in lst]: the compiled list, or the first error
CompileAll(lst) ==
    LET bad == {i \in 1..Len(lst) : RegexType(lst[i]).err # "none"}
        first == CHOOSE i \in bad : \A j \in bad : i <= j
    IN  IF bad = {}
        THEN [val |-> List([i \in 1..Len(lst) |-> RegexType(lst[i]).val]), err |-> "none"]
        ELSE [val |-> List(<<>>), err |-> RegexType(lst[first]).err]

\* the values the body of class Config (lines 93-109) binds its fields to;
\* graph is what nix_nom_tool() returns at line 102
FieldDefaults(graph) ==
    [allow |-> List(<<>>),
     build_args |-> Str(""),
     no_shell |-> Bool(FALSE),
     remote |-> Str("https://github.com/NixOS/nixpkgs"),
     run |-> Str(""),
     sandbox |-> Bool(FALSE),
     skipped_packages |-> List(<<>>),
     skipped_package_regexes |-> List(<<>>),
     systems |-> Str("current"),
     build_graph |-> graph,
     print_result |-> Bool(FALSE),
     extra_nixpkgs_config |-> Str("{ }"),
     num_parallel_evals |-> IntV(1),
     rev_config |-> RevConfigDefault,
     pr_config |-> PrConfigDefault,
     wip_config |-> WipConfigDefault]

\* the fields of class Config in the order of their declaration
FieldOrder ==
    <<"allow", "build_args", "no_shell", "remote", "run", "sandbox",
      "skipped_packages", "skipped_package_regexes", "systems", "build_graph",
      "print_result", "extra_nixpkgs_config", "num_parallel_evals",
      "rev_config", "pr_config", "wip_config">>

\* the class of the value has no __hash__: a list, or an instance of one of
\* the dataclasses of lines 47-83 (eq without frozen)
Unhashable(name, v) ==
    IF name \in {"rev_config", "pr_config", "wip_config"} THEN TRUE ELSE v.t = "list"

\* @dataclass applied to class Config (line 91): the first field whose
\* default is unhashable raises ValueError("mutable default ... not allowed")
Dataclass(body) ==
    LET bad == {i \in 1..Len(FieldOrder) : Unhashable(FieldOrder[i], body[FieldOrder[i]])}
    IN  IF bad = {} THEN [err |-> "none", field |-> ""]
        ELSE [err |-> "ValueError",
              field |-> FieldOrder[CHOOSE i \in bad : \A j \in bad : i <= j]]

\* no Config object
NoObject == [exists |-> FALSE]

\* config_dict.get(table, {}) of a dict given by its <<table, key>> leaves;
\* the top level is the table ""
SubTable(d, tb) ==
    [k \in {p[2] : p \in {q \in DOMAIN d : q[1] = tb}} |-> d[<<tb, k>>]]

\* lines 112-114
SetAllow(x, d) ==
    LET c == [x.cfg EXCEPT !.allow = Get(d, "allow", @)]
    IN  Step(x, c, IF ~IsInstance(c.allow, "list") THEN "ValueError"
                   ELSE IF ~AllIn(c.allow, ALLOW_VALUES) THEN "AssertionError"
                   ELSE "none")

\* lines 116-134, 153-159: self.<key> = config_dict.get(<key>, self.<key>),
\* then _check_type(<key>, self.<key>, ty)
SetTyped(x, d, key, ty) ==
    LET c == [x.cfg EXCEPT ![key] = Get(d, key, @)]
    IN  Step(x, c, CheckType(c[key], ty))

\* lines 136-142: a local is checked and compiled, then assigned
SetRegexes(x, d) ==
    LET r == Get(d, "skipped_package_regexes", x.cfg.skipped_package_regexes)
        k == CompileAll(r.l)
    IN  IF ~IsInstance(r, "list") THEN Step(x, x.cfg, "ValueError")
        ELSE IF k.err # "none" THEN Step(x, x.cfg, k.err)
        ELSE Step(x, [x.cfg EXCEPT !.skipped_package_regexes = k.val], "none")

\* lines 144-147
SetSystems(x, d) ==
    LET c == [x.cfg EXCEPT !.systems = Get(d, "systems", @)]
    IN  Step(x, c,
             IF ~(IsInstance(c.systems, "str") \/ IsInstance(c.systems, "list"))
             THEN "AssertionError"
             ELSE IF IsInstance(c.systems, "list") /\ ~AllStr(c.systems)
             THEN "AssertionError"
             ELSE "none")

\* lines 149-151
SetBuildGraph(x, d) ==
    LET c == [x.cfg EXCEPT !.build_graph = Get(d, "build_graph", @)]
    IN  Step(x, c,
             IF ~IsInstance(c.build_graph, "str") THEN "ValueError"
             ELSE IF c.build_graph \notin BUILD_GRAPH_VALUES THEN "AssertionError"
             ELSE "none")

\* lines 161-165
SetNumParallelEvals(x, d) ==
    LET c == [x.cfg EXCEPT !.num_parallel_evals = Get(d, "num_parallel_evals", @)]
    IN  Step(x, c,
             IF ~IsInstance(c.num_parallel_evals, "int") THEN "ValueError"
             ELSE IF ~(c.num_parallel_evals.n > 0) THEN "AssertionError"
             ELSE "none")

\* lines 169-179: the sub-configs, mutated in place
SetRev(x, dict) ==
    LET r == RevConfig_update_from_dict(x.cfg.rev_config, SubTable(dict, "rev"))
    IN  Step(x, [x.cfg EXCEPT !.rev_config = r.cfg], r.err)
SetWip(x, dict) ==
    LET r == WipConfig_update_from_dict(x.cfg.wip_config, SubTable(dict, "wip"))
    IN  Step(x, [x.cfg EXCEPT !.wip_config = r.cfg], r.err)
SetPr(x, dict) ==
    LET r == PrConfig_update_from_dict(x.cfg.pr_config, SubTable(dict, "pr"))
    IN  Step(x, [x.cfg EXCEPT !.pr_config = r.cfg], r.err)

\* the k-th statement group of update_from_dict, in source order
Statement(k, x, dict) ==
    LET d == SubTable(dict, "")
    IN  CASE k = 1 -> SetAllow(x, d)
          [] k = 2 -> SetTyped(x, d, "build_args", "str")
          [] k = 3 -> SetTyped(x, d, "no_shell", "bool")
          [] k = 4 -> SetTyped(x, d, "remote", "str")
          [] k = 5 -> SetTyped(x, d, "run", "str")
          [] k = 6 -> SetTyped(x, d, "sandbox", "bool")
          [] k = 7 -> SetTyped(x, d, "skipped_packages", "list")
          [] k = 8 -> SetRegexes(x, d)
          [] k = 9 -> SetSystems(x, d)
          [] k = 10 -> SetBuildGraph(x, d)
          [] k = 11 -> SetTyped(x, d, "print_result", "bool")
          [] k = 12 -> SetTyped(x, d, "extra_nixpkgs_config", "str")
          [] k = 13 -> SetNumParallelEvals(x, d)
          [] k = 14 -> SetRev(x, dict)
          [] k = 15 -> SetWip(x, dict)
          [] k = 16 -> SetPr(x, dict)

\* the call after its first k statement groups; each group starts from the
\* object and the exception the groups before it left
RECURSIVE RunStatements(_, _, _)
RunStatements(k, self, dict) ==
    IF k = 0 THEN [cfg |-> self, err |-> "none"]
    ELSE CHOOSE y \in {Statement(k, x, dict) : x \in {RunStatements(k - 1, self, dict)}} :
             TRUE

Config_update_from_dict(self, dict) == RunStatements(16, self, dict)

\* Config.update_from_args is declared without `self` (line 181): the call
\* config.update_from_args(args) passes two positional arguments to a function
\* of one parameter, so Python raises TypeError before the body runs.
Config_update_from_args(self, args) == [cfg |-> self, err |-> "TypeError"]

\* Config.read_config (lines 184-191); file.exists is config_path.exists()
\* and file.content the dict tomllib.load returns
Config_read_config(self, file) ==
    IF ~file.exists THEN [cfg |-> self, err |-> "none"]
    ELSE Config_update_from_dict(self, file.content)

-----------------------------------------------------------------------------
(* parse_pr_numbers (pr.py:18-34).  An argument is a sequence of           *)
(* characters; "U" stands for a prefix that matches the pattern's          *)
(* https://github.com/NixOS/nixpkgs/pull/ part.                            *)

Digits == {"0", "1", "3"}
Chars == Digits \cup {"-", "U"}

DigitVal(c) == IF c = "0" THEN 0 ELSE IF c = "1" THEN 1 ELSE 3

\* int() of a non-empty run of decimal digits
RECURSIVE ToInt(_)
ToInt(ds) ==
    IF Len(ds) = 0 THEN 0
    ELSE 10 * ToInt(SubSeq(ds, 1, Len(ds) - 1)) + DigitVal(ds[Len(ds)])

\* length of the longest run of digits of s that starts at position i: what a
\* greedy \d+ consumes there
RECURSIVE DigitRun(_, _)
DigitRun(s, i) ==
    IF i <= Len(s) /\ s[i] \in Digits THEN 1 + DigitRun(s, i + 1) ELSE 0

PyRangeInclusive(a, b) == [i \in 1..(IF b >= a THEN b - a + 1 ELSE 0) |-> a + i - 1]

\* list(range(a, b))
PyRange(a, b) == [i \in 1..(IF b > a THEN b - a ELSE 0) |-> a + i - 1]

\* re.match(r"(\d+)-(\d+)", arg): anchored at the start only
MatchRange(arg) ==
    LET n1 == DigitRun(arg, 1)
        n2 == DigitRun(arg, n1 + 2)
    IN  IF n1 >= 1 /\ Len(arg) >= n1 + 1 /\ arg[n1 + 1] = "-" /\ n2 >= 1
        THEN [m |-> TRUE, g1 |-> SubSeq(arg, 1, n1),
              g2 |-> SubSeq(arg, n1 + 2, n1 + 1 + n2)]
        ELSE [m |-> FALSE, g1 |-> <<>>, g2 |-> <<>>]

\* re.match(r"https://github.com/NixOS/nixpkgs/pull/(\d+)/?.*", arg)
MatchUrl(arg) ==
    LET n == DigitRun(arg, 2)
    IN  IF Len(arg) >= 2 /\ arg[1] = "U" /\ n >= 1
        THEN [m |-> TRUE, g1 |-> SubSeq(arg, 2, 1 + n)]
        ELSE [m |-> FALSE, g1 |-> <<>>]

\* int(arg): an optional sign and decimal digits, else ValueError
PyInt(arg) ==
    LET neg == Len(arg) >= 1 /\ arg[1] = "-"
        ds == IF neg THEN SubSeq(arg, 2, Len(arg)) ELSE arg
    IN  IF Len(ds) >= 1 /\ \A i \in 1..Len(ds) : ds[i] \in Digits
        THEN [ok |-> TRUE, val |-> IF neg THEN 0 - ToInt(ds) ELSE ToInt(ds)]
        ELSE [ok |-> FALSE, val |-> 0]

\* one iteration of the loop (lines 21-33): the numbers the argument adds,
\* or the sys.exit(1)
ParseArg(arg) ==
    LET r == MatchRange(arg)
        u == MatchUrl(arg)
        n == PyInt(arg)
    IN  IF r.m THEN [exit |-> FALSE, nums |-> PyRange(ToInt(r.g1), ToInt(r.g2))]
        ELSE IF u.m THEN [exit |-> FALSE, nums |-> <<ToInt(u.g1)>>]
        ELSE IF n.ok THEN [exit |-> FALSE, nums |-> <<n.val>>]
        ELSE [exit |-> TRUE, nums |-> <<>>]

\* the loop from argument i on, with the list built so far
RECURSIVE ParseLoop(_, _, _)
ParseLoop(args, i, acc) ==
    IF i > Len(args) THEN [exit |-> FALSE, prs |-> acc]
    ELSE LET r == ParseArg(args[i])
         IN  IF r.exit THEN [exit |-> TRUE, prs |-> <<>>]
             ELSE ParseLoop(args, i + 1, acc \o r.nums)

parse_pr_numbers(args) == ParseLoop(args, 1, <<>>)

\* bounds of the argument lists: number of arguments, characters in total
MaxArgs == 2
MaxChars == 5

RECURSIVE TotalLen(_)
TotalLen(args) == IF args = <<>> THEN 0 ELSE Len(Head(args)) + TotalLen(Tail(args))

NoParse == [exit |-> FALSE, prs |-> <<>>]

\* the caller puts the argument list together, one argument at a time
ParseInit ==
    /\ number_args = <<>>
    /\ parse_pc = "args"
    /\ parse_out = NoParse

AddArg ==
    /\ parse_pc = "args"
    /\ Len(number_args) < MaxArgs
    /\ \E n \in 0..(MaxChars - TotalLen(number_args)) :
         \E s \in [1..n -> Chars] : number_args' = Append(number_args, s)
    /\ UNCHANGED <<parse_pc, parse_out>>

ParseCall ==
    /\ parse_pc = "args"
    /\ parse_out' = parse_pr_numbers(number_args)
    /\ parse_pc' = "done"
    /\ UNCHANGED number_args

-----------------------------------------------------------------------------
(* Inputs: settings of the config file and of the command line.            *)

\* most keys one dict of the enumeration sets
MaxKeys == 2

\* candidate settings <<table, key, value>>: for every key of the file a valid
\* value, and values of the wrong type or outside the vocabulary
LeafChoices ==
    {<<"", "allow", List(<<Str("ifd")>>)>>, <<"", "allow", List(<<Str("bogus")>>)>>,
     <<"", "allow", Str("ifd")>>,
     <<"", "build_args", Str("-j4")>>, <<"", "build_args", IntV(4)>>,
     <<"", "no_shell", Bool(TRUE)>>, <<"", "no_shell", Str("yes")>>,
     <<"", "remote", Str("fork")>>, <<"", "remote", Bool(TRUE)>>,
     <<"", "run", Str("ls")>>, <<"", "run", IntV(0)>>,
     <<"", "sandbox", Bool(TRUE)>>, <<"", "sandbox", Str("yes")>>,
     <<"", "skipped_packages", List(<<Str("hello")>>)>>,
     <<"", "skipped_packages", Str("hello")>>,
     <<"", "skipped_package_regexes", List(<<Str("a.*")>>)>>,
     <<"", "skipped_package_regexes", List(<<Str("(")>>)>>,
     <<"", "skipped_package_regexes", Str("a.*")>>,
     <<"", "systems", Str("all")>>, <<"", "systems", List(<<Str("x86_64-linux")>>)>>,
     <<"", "systems", List(<<IntV(1)>>)>>, <<"", "systems", IntV(1)>>,
     <<"", "build_graph", Str("nix")>>, <<"", "build_graph", Str("nom")>>,
     <<"", "build_graph", Str("dot")>>, <<"", "build_graph", IntV(1)>>,
     <<"", "print_result", Bool(TRUE)>>, <<"", "print_result", IntV(1)>>,
     <<"", "extra_nixpkgs_config", Str("{ allowUnfree = true; }")>>,
     <<"", "extra_nixpkgs_config", Bool(TRUE)>>,
     <<"", "num_parallel_evals", IntV(4)>>, <<"", "num_parallel_evals", IntV(0)>>,
     <<"", "num_parallel_evals", Bool(TRUE)>>, <<"", "num_parallel_evals", Str("4")>>,
     <<"rev", "branch", Str("staging")>>, <<"rev", "branch", IntV(1)>>,
     <<"wip", "branch", Str("staging")>>, <<"wip", "branch", IntV(1)>>,
     <<"wip", "staged", Bool(TRUE)>>, <<"wip", "staged", Bool(FALSE)>>,
     <<"wip", "staged", Str("yes")>>,
     <<"pr", "eval", Str("local")>>, <<"pr", "eval", Str("remote")>>,
     <<"pr", "eval", IntV(1)>>,
     <<"pr", "checkout", Str("commit")>>, <<"pr", "checkout", Str("rebase")>>,
     <<"pr", "post_result", Bool(TRUE)>>, <<"pr", "post_result", Str("yes")>>}

EmptyDict == [p \in {} |-> Str("")]

Put(d, c) ==
    [p \in DOMAIN d \cup {<<c[1], c[2]>>} |->
        IF p = <<c[1], c[2]>> THEN c[3] ELSE d[p]]

\* the dicts that set at most k of the settings in leaves
RECURSIVE DictsOver(_, _)
DictsOver(leaves, k) ==
    IF k = 0 THEN {EmptyDict}
    ELSE LET prev == DictsOver(leaves, k - 1)
         IN  prev \cup {Put(d, c) : d \in prev, c \in leaves}

NoFile == [exists |-> FALSE, content |-> EmptyDict]

\* command lines: the options given on the command line, as overrides
CliArgs ==
    {EmptyDict,
     Put(EmptyDict, <<"", "no_shell", Bool(TRUE)>>),
     Put(EmptyDict, <<"", "build_graph", Str("nom")>>),
     Put(EmptyDict, <<"", "build_graph", Str("nix")>>),
     Put(EmptyDict, <<"", "build_args", Str("-j8")>>),
     Put(EmptyDict, <<"pr", "eval", Str("local")>>),
     Put(EmptyDict, <<"wip", "staged", Bool(TRUE)>>)}

-----------------------------------------------------------------------------
(* How the process ends; the process-level state while no process runs.    *)

Running == [kind |-> "running", code |-> 0, exc |-> ""]
Exit(n) == [kind |-> "exit", code |-> n, exc |-> ""]
Raise(e) == [kind |-> "raise", code |-> 0, exc |-> e]
Return == [kind |-> "return", code |-> 0, exc |-> ""]

PrIdle ==
    /\ pc = "idle"
    /\ no_shell = FALSE
    /\ prs = <<>>
    /\ outcome = Running

-----------------------------------------------------------------------------
(* The update_from_dict methods of the three sub-config classes (lines     *)
(* 47-83), applied to the objects the body of class Config constructs at   *)
(* lines 107-109: RevConfig(), PrConfig(), WipConfig().                    *)

\* most calls made in a row
MaxCalls == 2

\* lines 107-109, evaluated while the class body runs
SubObjects ==
    [rev_config |-> RevConfigDefault,
     pr_config |-> PrConfigDefault,
     wip_config |-> WipConfigDefault]

\* the dicts a method of the table tb is called with, keyed by field name
TableDicts(tb) ==
    {SubTable(d, tb) : d \in DictsOver({c \in LeafChoices : c[1] = tb}, MaxKeys)}

SubInit ==
    /\ config = SubObjects
    /\ cfg_file = NoFile
    /\ cfg_args = EmptyDict
    /\ cfg_pc = "objects"
    /\ cfg_err = "none"
    /\ cfg_calls = 0
    /\ number_args = <<>>
    /\ parse_pc = "idle"
    /\ parse_out = NoParse
    /\ PrIdle

\* r is what the call obj.update_from_dict(d) did; an exception ends the run
Called(tb, obj, d, r) ==
    /\ config' = [config EXCEPT ![obj] = r.cfg]
    /\ cfg_err' = r.err
    /\ cfg_args' = d
    /\ cfg_pc' = tb
    /\ cfg_calls' = cfg_calls + 1
    /\ UNCHANGED <<cfg_file, parseVars, prVars>>

RevUpdate ==
    /\ cfg_calls < MaxCalls /\ cfg_err = "none"
    /\ \E d \in TableDicts("rev") :
         Called("rev", "rev_config", d, RevConfig_update_from_dict(config.rev_config, d))

PrUpdate ==
    /\ cfg_calls < MaxCalls /\ cfg_err = "none"
    /\ \E d \in TableDicts("pr") :
         Called("pr", "pr_config", d, PrConfig_update_from_dict(config.pr_config, d))

WipUpdate ==
    /\ cfg_calls < MaxCalls /\ cfg_err = "none"
    /\ \E d \in TableDicts("wip") :
         Called("wip", "wip_config", d, WipConfig_update_from_dict(config.wip_config, d))

SubNext == RevUpdate \/ PrUpdate \/ WipUpdate

SpecSubConfig == SubInit /\ [][SubNext]_vars

-----------------------------------------------------------------------------
(* parse_pr_numbers applied to every bounded argument list.                *)

ParseSpecInit ==
    /\ ParseInit
    /\ config = NoObject
    /\ cfg_file = NoFile
    /\ cfg_args = EmptyDict
    /\ cfg_pc = "objects"
    /\ cfg_err = "none"
    /\ cfg_calls = 0
    /\ PrIdle

ParseNext == (AddArg \/ ParseCall) /\ UNCHANGED <<cfgVars, prVars>>

SpecParse == ParseSpecInit /\ [][ParseNext]_vars

-----------------------------------------------------------------------------
(* The process `nixpkgs-review pr ...`.  Python imports cli/pr.py before   *)
(* any of its functions can be called; line 15 of pr.py imports            *)
(* cli/config.py, which runs the class statement of config.py:91-109.      *)
(* pr_command (pr.py:37-112) is defined only when that import returns.     *)

\* bounds of the argument lists on the command line
PrMaxArgs == 2
PrMaxChars == 3
\* characters of the arguments on the command line
PrChars == {"0", "3", "-", "U"}

\* config files the process is started with
PrFiles ==
    {NoFile,
     [exists |-> TRUE,
      content |-> Put(Put(EmptyDict, <<"wip", "staged", Bool(FALSE)>>),
                      <<"", "no_shell", Bool(TRUE)>>)],
     [exists |-> TRUE, content |-> Put(EmptyDict, <<"pr", "eval", Str("remote")>>)]}

\* process start: no module is imported, no class and no object exists
PrInit ==
    /\ config = NoObject
    /\ cfg_file \in PrFiles
    /\ cfg_args \in CliArgs
    /\ cfg_pc = "class"
    /\ cfg_err = "none"
    /\ cfg_calls = 0
    /\ number_args = <<>>
    /\ parse_pc = "idle"
    /\ parse_out = NoParse
    /\ pc = "argv"
    /\ no_shell = (<<"", "no_shell">> \in DOMAIN cfg_args)
    /\ prs = <<>>
    /\ outcome = Running

\* the command line: args.number, one argument at a time
PrAddArg ==
    /\ pc = "argv"
    /\ Len(number_args) < PrMaxArgs
    /\ \E n \in 0..(PrMaxChars - TotalLen(number_args)) :
         \E s \in [1..n -> PrChars] : number_args' = Append(number_args, s)
    /\ UNCHANGED <<cfgVars, parse_pc, parse_out, prVars>>

\* pr.py:15, `from .config import Config`: the body of class Config is run
\* (lines 93-109), then @dataclass (line 91) checks the defaults; an
\* exception of the class statement ends the process
ImportConfig ==
    /\ pc = "argv"
    /\ \E g \in BUILD_GRAPH_VALUES :
         LET r == Dataclass(FieldDefaults(g))
         IN  /\ cfg_err' = r.err
             /\ IF r.err = "none"
                THEN pc' = "imported" /\ cfg_pc' = "defaults" /\ outcome' = outcome
                ELSE pc' = "ended" /\ cfg_pc' = "ended" /\ outcome' = Raise(r.err)
    /\ UNCHANGED <<config, cfg_file, cfg_args, cfg_calls, parseVars, no_shell, prs>>

PrNext == PrAddArg \/ ImportConfig

SpecPr == PrInit /\ [][PrNext]_vars

-----------------------------------------------------------------------------
(* Claims about the sub-config methods.                                    *)

\* C6: a call of update_from_dict that raises leaves the object it was called
\* on, and every other sub-config, exactly as they were before the call.
C6_NoPartialConfig ==
    [][(cfg_calls' = cfg_calls + 1 /\ cfg_err' # "none") => config' = config]_vars

\* the object the next call is made on, before and after that call
Before(tb) ==
    IF tb = "rev" THEN config.rev_config
    ELSE IF tb = "pr" THEN config.pr_config
    ELSE config.wip_config
After(tb) ==
    IF tb = "rev" THEN config'.rev_config
    ELSE IF tb = "pr" THEN config'.pr_config
    ELSE config'.wip_config

\* C7: update_from_dict leaves every field the dict omits at its previous
\* value, and it accepts the empty dict.
C7_OmittedKeepDefault ==
    [][cfg_calls' = cfg_calls + 1 =>
          /\ \A k \in DOMAIN Before(cfg_pc') \ DOMAIN cfg_args' :
               After(cfg_pc')[k] = Before(cfg_pc')[k]
          /\ cfg_args' = EmptyDict => cfg_err' = "none"]_vars

\* PrConfig.update_from_dict alone returns only with eval and checkout inside
\* their vocabularies, and accepts every dict whose values are inside the
\* vocabularies and well-typed
PrEnumValidation ==
    cfg_pc = "pr" =>
        /\ cfg_err = "none" =>
             /\ config.pr_config.eval \in EVAL_VALUES
             /\ config.pr_config.checkout \in CHECKOUT_VALUES
        /\ (/\ Get(cfg_args, "eval", Str("local")) \in EVAL_VALUES
            /\ Get(cfg_args, "checkout", Str("merge")) \in CHECKOUT_VALUES
            /\ Get(cfg_args, "post_result", Bool(TRUE)).t = "bool")
             => cfg_err = "none"

\* RevConfig.update_from_dict keeps what C6 and C7 ask of it
RevKeepsOmitted ==
    (cfg_pc = "rev" /\ cfg_calls = 1) =>
        /\ cfg_args = EmptyDict => (cfg_err = "none" /\ config = SubObjects)
        /\ cfg_err = "none" => config.rev_config.branch.t = "str"

-----------------------------------------------------------------------------
(* Claims about parse_pr_numbers.                                          *)

AllDigits(s) == Len(s) >= 1 /\ \A i \in 1..Len(s) : s[i] \in Digits

\* the three recognized forms: A-B, a pull-request URL, an integer string
RangeForm(arg) ==
    \E k \in 2..(Len(arg) - 1) :
        /\ arg[k] = "-"
        /\ AllDigits(SubSeq(arg, 1, k - 1))
        /\ AllDigits(SubSeq(arg, k + 1, Len(arg)))
UrlForm(arg) == Len(arg) >= 2 /\ arg[1] = "U" /\ arg[2] \in Digits
IntForm(arg) ==
    AllDigits(arg) \/ (Len(arg) >= 2 /\ arg[1] = "-" /\ AllDigits(Tail(arg)))
Recognized(arg) == RangeForm(arg) \/ UrlForm(arg) \/ IntForm(arg)

\* the expansion the claim gives each form
Expansion(arg) ==
    IF RangeForm(arg)
    THEN LET k == CHOOSE k \in 2..(Len(arg) - 1) : arg[k] = "-"
             A == ToInt(SubSeq(arg, 1, k - 1))
             B == ToInt(SubSeq(arg, k + 1, Len(arg)))
         IN  [i \in 1..(IF B > A THEN B - A ELSE 0) |-> A + (i - 1)]
    ELSE IF UrlForm(arg)
    THEN LET e == CHOOSE e \in 2..Len(arg) :
                      /\ AllDigits(SubSeq(arg, 2, e))
                      /\ (e = Len(arg) \/ arg[e + 1] \notin Digits)
         IN  <<ToInt(SubSeq(arg, 2, e))>>
    ELSE IF arg[1] = "-" THEN <<0 - ToInt(Tail(arg))>>
    ELSE <<ToInt(arg)>>

RECURSIVE Concatenation(_)
Concatenation(args) ==
    IF args = <<>> THEN <<>>
    ELSE Expansion(Head(args)) \o Concatenation(Tail(args))

\* C5: on a list whose arguments all have a recognized form, parse_pr_numbers
\* returns the concatenation, in argument order, of the arguments' expansions,
\* a range A-B expanding to A, ..., B-1.
C5_ParseExpansion ==
    (parse_pc = "done" /\ \A i \in 1..Len(number_args) : Recognized(number_args[i]))
        => /\ ~parse_out.exit
           /\ parse_out.prs = Concatenation(number_args)

\* "10-13" gives [10, 11, 12]
C5_Witness ==
    /\ parse_pc = "done"
    /\ number_args = << <<"1", "0", "-", "1", "3">> >>
    /\ parse_out.prs = <<10, 11, 12>>

\* a range in second place expands in place, after the first argument
C5_WitnessOrder ==
    /\ parse_pc = "done"
    /\ number_args = << <<"3">>, <<"0", "-", "3">> >>
    /\ parse_out.prs = <<3, 0, 1, 2>>

\* C10: when an argument of the list has none of the three recognized forms
\* (a range A-B, a pull-request URL, an integer), the call of parse_pr_numbers
\* at line 41 ends by sys.exit(1) and returns no identifier to pr_command,
\* which so ends before line 68.
C10_UsageErrorEarly ==
    (parse_pc = "done" /\ \E i \in 1..Len(number_args) : ~Recognized(number_args[i]))
        => parse_out.exit

\* the argument matches one of the patterns of lines 21, 25 and 30, as
\* re.match and int() decide it: the range pattern is not anchored at its end
MatchesRangeForm(arg) ==
    \E k \in 2..(Len(arg) - 1) :
        AllDigits(SubSeq(arg, 1, k - 1)) /\ arg[k] = "-" /\ arg[k + 1] \in Digits
MatchesAForm(arg) == MatchesRangeForm(arg) \/ UrlForm(arg) \/ IntForm(arg)
HasBadArg(args) == \E i \in 1..Len(args) : ~MatchesAForm(args[i])

\* what the code does instead: the call ends by sys.exit(1) exactly when an
\* argument matches none of the patterns, and then returns nothing
ExitIffNoPatternMatches ==
    parse_pc = "done" =>
        /\ parse_out.exit <=> HasBadArg(number_args)
        /\ parse_out.exit => parse_out.prs = <<>>

\* a range followed by other characters is taken as the range
TrailingCharsAccepted ==
    (parse_pc = "done" /\ number_args = << <<"1", "-", "3", "-">> >>)
        => (~parse_out.exit /\ parse_out.prs = <<1, 2>>)

\* C13: when parse_pr_numbers returns, every identifier of the returned
\* list is greater than 0.
C13_ParsedPositive ==
    (parse_pc = "done" /\ ~parse_out.exit) =>
        \A k \in 1..Len(parse_out.prs) : parse_out.prs[k] > 0

\* the range and URL forms, made of digits, give no negative identifier
DigitFormsNonNegative ==
    (parse_pc = "done" /\ ~parse_out.exit
       /\ \A i \in 1..Len(number_args) :
            MatchRange(number_args[i]).m \/ MatchUrl(number_args[i]).m) =>
        \A k \in 1..Len(parse_out.prs) : parse_out.prs[k] >= 0

-----------------------------------------------------------------------------
(* Claims about the process.                                               *)

\* the field of a Config that the setting <<table, key>> names
Field(c, p) ==
    IF p[1] = "" THEN c[p[2]]
    ELSE IF p[1] = "rev" THEN c.rev_config[p[2]]
    ELSE IF p[1] = "wip" THEN c.wip_config[p[2]]
    ELSE c.pr_config[p[2]]

\* the value a field holds once the setting v has been applied to it
Resolved(p, v) ==
    IF p = <<"", "skipped_package_regexes">> THEN CompileAll(v.l).val ELSE v

\* the setting is well-typed and inside the vocabularies: update_from_dict
\* accepts it next to an explicit wip.staged
ValidChoice(c) ==
    Config_update_from_dict(
        FieldDefaults(Str("nix")),
        Put(Put(EmptyDict, <<"wip", "staged", Bool(FALSE)>>), c)).err = "none"

\* every setting of the user's file is valid
FileValid ==
    \A p \in DOMAIN cfg_file.content :
        ValidChoice(<<p[1], p[2], cfg_file.content[p]>>)

\* parse_pr_numbers accepts the command line
Accepted == ~parse_pr_numbers(number_args).exit

\* the enumerated fields are inside their vocabularies
EnumsInside(c) ==
    /\ c.pr_config.eval \in EVAL_VALUES
    /\ c.pr_config.checkout \in CHECKOUT_VALUES
    /\ c.build_graph \in BUILD_GRAPH_VALUES
    /\ c.allow.t = "list" /\ AllIn(c.allow, ALLOW_VALUES)

\* C4: a process started with a valid file and an accepted command line has,
\* when it ends, a Config in which a field set only in the file holds the file
\* value and a field set in the file and on the command line holds the
\* command-line value.
C4_Layering ==
    (pc = "ended" /\ FileValid /\ Accepted) =>
        /\ config # NoObject
        /\ \A p \in DOMAIN cfg_file.content :
             Field(config, p) =
                 IF p \in DOMAIN cfg_args THEN Resolved(p, cfg_args[p])
                 ELSE Resolved(p, cfg_file.content[p])

\* C9: loading the user's file fails whenever an enumerated field ends outside
\* its vocabulary, and succeeds whenever every setting of the file is inside
\* the vocabularies and well-typed.
C9_EnumValidation ==
    (pc = "ended" /\ cfg_file.exists) =>
        /\ (config # NoObject /\ ~EnumsInside(config)) => cfg_err # "none"
        /\ FileValid => cfg_err = "none"

\* C11: with no_shell set, a process whose command line parse_pr_numbers
\* accepts ends by sys.exit, with code 0 or 1 according to the reviews.
C11_NoShellExitCode ==
    (pc = "ended" /\ Accepted /\ no_shell) => outcome \in {Exit(0), Exit(1)}

\* C16: for every argument list parse_pr_numbers accepts, the process fails no
\* assertion and ends only by returning a session path or by sys.exit with
\* code 0 or 1.
C16_NoAssertionFailure ==
    (pc = "ended" /\ Accepted) =>
        /\ outcome # Raise("AssertionError")
        /\ outcome \in {Return, Exit(0), Exit(1)}

\* the class statement never yields a class: every process ends in the import
\* with ValueError, no Config object exists, pr_command is never defined
ImportRaises ==
    /\ pc \in {"argv", "ended"}
    /\ config = NoObject
    /\ pc = "ended" =>
         (outcome = Raise("ValueError") /\ cfg_err = "ValueError" /\ prs = <<>>)

====
